---------------------------- MODULE Spec2Model ----------------------------
(***************************************************************************)
(* Model of the signal-evaluation core of the trading model service:       *)
(*   - run_backtest            (src/model-service/app.py)                  *)
(*   - walk_forward_validation (src/model-service/app.py)                  *)
(*   - BinaryCalibrator        (src/model-service/calibration.py)          *)
(*   - decide_signal           (src/model-service/main.py)                 *)
(*   - FeaturePipe.make_window (src/model-service/features.py)             *)
(*   - train_model, backtest_model, predict (src/model-service/app.py)     *)
(*   - RateLimiter.wait                                                    *)
(*       (src/ai-trading-system-deploy/alpha_vantage_pipeline.py)          *)
(*                                                                         *)
(* The program computes with IEEE doubles.  The model computes with exact  *)
(* rationals <<numerator, denominator>> (normal form: denominator > 0,     *)
(* gcd 1), so an equality of the model is an equality of the real-valued   *)
(* computation the code performs, not of its rounding.                     *)
(***************************************************************************)
EXTENDS Integers, Sequences, FiniteSets, TLC

(***************************************************************************)
(* Exact rational arithmetic.                                              *)
(***************************************************************************)
Abs(x) == IF x < 0 THEN -x ELSE x

RECURSIVE GCD(_, _)
GCD(a, b) == IF b = 0 THEN a ELSE GCD(b, a % b)

\* The rational n/d in normal form (d # 0).
Rat(n, d) ==
    LET g == GCD(Abs(n), Abs(d))
        s == IF d < 0 THEN -1 ELSE 1
    IN  <<(s * n) \div g, (s * d) \div g>>

Zero == Rat(0, 1)
One == Rat(1, 1)

RAdd(a, b) ==
    LET g == GCD(a[2], b[2])
    IN  Rat(a[1] * (b[2] \div g) + b[1] * (a[2] \div g), (a[2] \div g) * b[2])
RNeg(a) == <<-a[1], a[2]>>
RSub(a, b) == RAdd(a, RNeg(b))
\* Cross-cancel before multiplying, so that intermediate products stay small.
RMul(a, b) ==
    LET g1 == GCD(Abs(a[1]), b[2])
        g2 == GCD(Abs(b[1]), a[2])
    IN  Rat((a[1] \div g1) * (b[1] \div g2), (a[2] \div g2) * (b[2] \div g1))
RDiv(a, b) == RMul(a, Rat(b[2], b[1]))
\* The order of n1/d1 and n2/d2 (d1, d2 > 0): -1, 0 or 1.  Integer parts
\* first, then the fractional parts through their reciprocals, so that no
\* product is formed.
RECURSIVE RCompare(_, _, _, _)
RCompare(n1, d1, n2, d2) ==
    LET q1 == n1 \div d1
        q2 == n2 \div d2
        r1 == n1 % d1
        r2 == n2 % d2
    IN  IF q1 # q2 THEN (IF q1 < q2 THEN -1 ELSE 1)
        ELSE IF r1 = 0 THEN (IF r2 = 0 THEN 0 ELSE -1)
        ELSE IF r2 = 0 THEN 1
        ELSE 0 - RCompare(d1, r1, d2, r2)
RLt(a, b) == RCompare(a[1], a[2], b[1], b[2]) = -1
RLe(a, b) == RCompare(a[1], a[2], b[1], b[2]) # 1
RGt(a, b) == RLt(b, a)
RGe(a, b) == RLe(b, a)
RAbs(a) == <<Abs(a[1]), a[2]>>
RMax(a, b) == IF RLt(a, b) THEN b ELSE a
RMin(a, b) == IF RLt(b, a) THEN b ELSE a

\* seq[lo] + ... + seq[hi], by halves (rational addition is associative, so
\* the order of the additions does not show).
RECURSIVE RSumRange(_, _, _)
RSumRange(seq, lo, hi) ==
    IF lo > hi THEN Zero
    ELSE IF lo = hi THEN seq[lo]
    ELSE LET mid == (lo + hi) \div 2
         IN  RAdd(RSumRange(seq, lo, mid), RSumRange(seq, mid + 1, hi))

\* sum() over a sequence of rationals.
RSum(seq) == RSumRange(seq, 1, Len(seq))

(***************************************************************************)
(* run_backtest: inputs.                                                   *)
(*                                                                         *)
(* data is the DataFrame: a sequence of rows.  A row carries timestamp and *)
(* price (the feature columns only feed model.predict, whose outputs are   *)
(* the input `predictions`).  generate_backtest_data builds frames without *)
(* an 'entry_price' column; a frame handed to run_backtest may carry one,  *)
(* so the column is part of the input: NoColumn, or a value per row.       *)
(***************************************************************************)
MaxBars == 2

NoColumn == <<>>

\* BacktestRequest.initial_capital default
initial_capital_default == 10000

Prices == {Rat(10, 1), Rat(40, 1)}
TimeStamps == 1 .. 3
EntryColumns == {NoColumn, Rat(10, 1)}

\* model.predict outputs around the strategy's thresholds +/- 0.01
PredictionValues == {Rat(-2, 100), Rat(-1, 100), Rat(1, 100), Rat(2, 100)}

\* (transaction_cost, slippage)
Configs == {<<Zero, Zero>>, <<Rat(1, 20), Zero>>, <<Zero, Rat(1, 20)>>}

Rows(col) == [timestamp : TimeStamps, price : Prices, entry_price : {col}]

\* All frames of at most MaxBars rows; the column is present in every row or
\* in none.
DataFrames ==
    UNION {[1 .. n -> Rows(col)] : n \in 0 .. MaxBars, col \in EntryColumns}

TimestampsOf(rows) == [k \in 1 .. Len(rows) |-> rows[k].timestamp]

StrictlyIncreasing(ts) == \A k \in 1 .. Len(ts) - 1 : ts[k] < ts[k + 1]

\* The frames a caller that keeps the input contract passes: sorted by
\* timestamp, no timestamp twice.
OrderedFrames == {d \in DataFrames : StrictlyIncreasing(TimestampsOf(d))}

\* What model.predict(X) does: returns one prediction per row, or raises.
PredictOutcomes(data) ==
    {[raises |-> FALSE, values |-> v] : v \in [1 .. Len(data) -> PredictionValues]}
    \cup {[raises |-> TRUE, values |-> <<>>]}

\* run: the frames of the run_backtest calls; wf: the frame of a
\* walk_forward_validation call; cal: a BinaryCalibrator.calibrate call;
\* sig: a decide_signal call; win: an inference session's window store and
\* its last make_window call; svc: the model service's globals and the
\* requests it has served; rl: a shared RateLimiter, its callers and the
\* clock.
VARIABLES run, wf, cal, sig, win, svc, rl

vars == <<run, wf, cal, sig, win, svc, rl>>

\* The frame of a function that is not being called.
NoCall == [pc |-> "idle"]

\* The frame of one run_backtest call before its first statement.
NewRun(data, preds, cap, cost, slip) ==
    [pc |-> "call",
     data |-> data, model_predict |-> preds,
     initial_capital |-> cap, transaction_cost |-> cost, slippage |-> slip,
     predictions |-> <<>>, i |-> 0,
     capital |-> Zero, position |-> Zero, entry_price |-> Zero,
     trades |-> <<>>, equity_curve |-> <<>>,
     result |-> <<>>, error |-> ""]

Raise(s, e) == [s EXCEPT !.pc = "raised", !.error = e]

\* The ledger kept in one list shared by all calls, not in a local of each.
BeginStepSharedLedger(s) ==
    LET longest == CHOOSE r \in DOMAIN run :
                       \A q \in DOMAIN run : Len(run[q].trades) <= Len(run[r].trades)
    IN  IF s.model_predict.raises
        THEN Raise(s, "predict")
        ELSE [s EXCEPT !.pc = "loop", !.i = 1,
                       !.capital = s.initial_capital,
                       !.position = Zero,
                       !.trades = run[longest].trades,
                       !.equity_curve = <<>>,
                       !.predictions = s.model_predict.values]

\* Lines 530-539: the locals, then predictions = model.predict(X).
BeginStep(s) ==
    IF s.model_predict.raises
    THEN Raise(s, "predict")
    ELSE [s EXCEPT !.pc = "loop", !.i = 1,
                   !.capital = s.initial_capital,
                   !.position = Zero,
                   !.trades = <<>>,
                   !.equity_curve = <<>>,
                   !.predictions = s.model_predict.values]

\* A buy threshold of 0: every positive prediction is a buy signal.
BuyThresholdZero == Zero

\* The strategy's thresholds (lines 546, 571) and the share of capital put
\* into a position (lines 559, 584).
BuyThreshold == Rat(1, 100)
SellThreshold == Rat(-1, 100)
PositionFraction == Rat(95, 100)

\* (1 - transaction_cost - slippage)
NetFactor(s) == RSub(RSub(One, s.transaction_cost), s.slippage)

\* The entry price a close reads: line 548 / 573, row['entry_price'].
CloseEntryPrice(s, row) == row.entry_price

\* Lines 548-556.  Only evaluated when the row has the column.
CloseShort(s, row) ==
    LET pnl == RMul(RMul(RSub(CloseEntryPrice(s, row), row.price),
                         RAbs(s.position)),
                    NetFactor(s))
    IN  [s EXCEPT !.capital = RAdd(s.capital, pnl),
                  !.trades = Append(s.trades,
                      [timestamp |-> row.timestamp, type |-> "close_short",
                       price |-> row.price, quantity |-> RAbs(s.position),
                       pnl |-> pnl])]

\* Lines 559-569.
OpenLong(s, row) ==
    LET quantity == RDiv(RMul(s.capital, PositionFraction), row.price)
        entry_price == RMul(row.price, RAdd(One, s.slippage))
    IN  [s EXCEPT !.capital = RSub(s.capital,
                      RMul(RMul(quantity, entry_price),
                           RAdd(One, s.transaction_cost))),
                  !.position = quantity,
                  !.entry_price = entry_price,
                  !.trades = Append(s.trades,
                      [timestamp |-> row.timestamp, type |-> "open_long",
                       price |-> entry_price, quantity |-> quantity,
                       pnl |-> Zero])]

\* Lines 573-581.  Only evaluated when the row has the column.
CloseLong(s, row) ==
    LET pnl == RMul(RMul(RSub(row.price, CloseEntryPrice(s, row)),
                         s.position),
                    NetFactor(s))
    IN  [s EXCEPT !.capital = RAdd(s.capital, pnl),
                  !.trades = Append(s.trades,
                      [timestamp |-> row.timestamp, type |-> "close_long",
                       price |-> row.price, quantity |-> s.position,
                       pnl |-> pnl])]

\* Lines 584-594.
OpenShort(s, row) ==
    LET quantity == RDiv(RMul(s.capital, PositionFraction), row.price)
        entry_price == RMul(row.price, RSub(One, s.slippage))
    IN  [s EXCEPT !.capital = RAdd(s.capital,
                      RMul(RMul(quantity, entry_price),
                           RSub(One, s.transaction_cost))),
                  !.position = RNeg(quantity),
                  !.entry_price = entry_price,
                  !.trades = Append(s.trades,
                      [timestamp |-> row.timestamp, type |-> "open_short",
                       price |-> entry_price, quantity |-> quantity,
                       pnl |-> Zero])]

\* The equity point holding the cash alone, the open position left out.
MarkEquityCapitalOnly(s, row) ==
    [s EXCEPT !.equity_curve = Append(s.equity_curve,
                  [timestamp |-> row.timestamp, equity |-> s.capital,
                   position |-> s.position, price |-> row.price]),
              !.i = s.i + 1]

\* Lines 597-609: mark to market and append the equity point.
MarkEquity(s, row) ==
    LET current_equity ==
            IF RGt(s.position, Zero) THEN RAdd(s.capital, RMul(s.position, row.price))
            ELSE IF RLt(s.position, Zero) THEN RAdd(s.capital, RMul(s.position, row.price))
            ELSE s.capital
    IN  [s EXCEPT !.equity_curve = Append(s.equity_curve,
                      [timestamp |-> row.timestamp, equity |-> current_equity,
                       position |-> s.position, price |-> row.price]),
                  !.i = s.i + 1]

\* Lines 559 / 584 divide by the bar's price.  The rows of data.iterrows()
\* over a frame with a datetime column are object rows, so row['price'] is a
\* Python float and a price of 0 raises ZeroDivisionError there: after the
\* close of the same bar, when there was one, and before the open.
OpenLongAndMark(s, row) ==
    IF row.price = Zero THEN Raise(s, "ZeroDivisionError")
    ELSE MarkEquity(OpenLong(s, row), row)

OpenShortAndMark(s, row) ==
    IF row.price = Zero THEN Raise(s, "ZeroDivisionError")
    ELSE MarkEquity(OpenShort(s, row), row)

\* Lines 541-609: one iteration of the loop over data.iterrows().  A close
\* reads row['entry_price'] first: on a frame without the column that is a
\* KeyError, raised before the iteration has changed anything.
BarStep(s) ==
    LET row == s.data[s.i]
        prediction == s.predictions[s.i]
    IN  IF RGt(prediction, BuyThreshold) /\ RLe(s.position, Zero)
        THEN IF RLt(s.position, Zero)
             THEN IF row.entry_price = NoColumn
                  THEN Raise(s, "KeyError")
                  ELSE OpenLongAndMark(CloseShort(s, row), row)
             ELSE OpenLongAndMark(s, row)
        ELSE IF RLt(prediction, SellThreshold) /\ RGe(s.position, Zero)
        THEN IF RGt(s.position, Zero)
             THEN IF row.entry_price = NoColumn
                  THEN Raise(s, "KeyError")
                  ELSE OpenShortAndMark(CloseLong(s, row), row)
             ELSE OpenShortAndMark(s, row)
        ELSE MarkEquity(s, row)

\* The drawdown left in currency, not divided by the peak.
DrawdownAbsolute(peak, equity) == RSub(peak, equity)

\* Line 629: the drawdown of one equity point against the running peak.
Drawdown(peak, equity) == RDiv(RSub(peak, equity), peak)

\* Lines 624-631: the loop over the equity curve, from point k on.
RECURSIVE DrawdownLoop(_, _, _, _)
DrawdownLoop(curve, k, peak, max_dd) ==
    IF k > Len(curve) THEN max_dd
    ELSE LET eq == curve[k].equity
             peak1 == IF RGt(eq, peak) THEN eq ELSE peak
             dd == Drawdown(peak1, eq)
         IN  DrawdownLoop(curve, k + 1, peak1,
                          IF RGt(dd, max_dd) THEN dd ELSE max_dd)

\* The peak starting from the first equity point, not from the capital put
\* in.
MaxDrawdownFromCurve(initial, curve) ==
    IF curve = <<>> THEN Zero
    ELSE DrawdownLoop(curve, 1, curve[1].equity, Zero)

\* Lines 624-626: peak = initial_capital, max_dd = 0, then the loop.
MaxDrawdown(initial, curve) == DrawdownLoop(curve, 1, initial, Zero)

\* [t['pnl'] for t in trades]
PnlOf(trades) == [k \in 1 .. Len(trades) |-> trades[k].pnl]

ProfitableTrades(trades) == SelectSeq(trades, LAMBDA t : RGt(t.pnl, Zero))
LosingTrades(trades) == SelectSeq(trades, LAMBDA t : RLt(t.pnl, Zero))

\* The share of the closing trades that made a profit.
WinRateOfCloses(trades) ==
    LET closes == SelectSeq(trades,
                            LAMBDA t : t.type \in {"close_long", "close_short"})
    IN  IF closes # <<>>
        THEN Rat(Len(ProfitableTrades(trades)), Len(closes)) ELSE Zero

\* Line 637.
WinRate(trades) ==
    IF trades # <<>>
    THEN Rat(Len(ProfitableTrades(trades)), Len(trades)) ELSE Zero

\* Gross profit over the losses net of the profits.
ProfitFactorOfNet(trades) ==
    LET gross_profit == RSum(PnlOf(ProfitableTrades(trades)))
        net_loss == RAbs(RSum(PnlOf(trades)))
    IN  IF RGt(net_loss, Zero) THEN RDiv(gross_profit, net_loss) ELSE Zero

\* Lines 639-641.
ProfitFactor(trades) ==
    LET gross_profit == RSum(PnlOf(ProfitableTrades(trades)))
        gross_loss == RAbs(RSum(PnlOf(LosingTrades(trades))))
    IN  IF RGt(gross_loss, Zero) THEN RDiv(gross_profit, gross_loss) ELSE Zero

\* Lines 611-658 (the Sharpe ratio, a square root of a variance, is left out
\* of the report: no rational holds it).
Report(s) ==
    LET final_capital ==
            IF s.equity_curve # <<>>
            THEN s.equity_curve[Len(s.equity_curve)].equity
            ELSE s.initial_capital
        gross_profit == RSum(PnlOf(ProfitableTrades(s.trades)))
        gross_loss == RAbs(RSum(PnlOf(LosingTrades(s.trades))))
    IN  [final_capital |-> final_capital,
         total_return |->
             RDiv(RSub(final_capital, s.initial_capital), s.initial_capital),
         max_drawdown |-> MaxDrawdown(s.initial_capital, s.equity_curve),
         win_rate |-> WinRate(s.trades),
         profit_factor |-> ProfitFactor(s.trades),
         total_trades |-> Len(s.trades),
         gross_profit |-> gross_profit,
         gross_loss |-> gross_loss,
         avg_trade |->
             IF s.trades # <<>>
             THEN RDiv(RSum(PnlOf(s.trades)), Rat(Len(s.trades), 1)) ELSE Zero,
         equity_curve |-> s.equity_curve,
         trades |-> s.trades]

\* max(initial, curve[1].equity, ..., curve[k].equity): the peak of line 627
\* when the loop reaches point k.
RECURSIVE RunningPeak(_, _, _)
RunningPeak(initial, curve, k) ==
    IF k = 0 THEN initial
    ELSE RMax(RunningPeak(initial, curve, k - 1), curve[k].equity)

\* Lines 613 and 629 divide by initial_capital and by the peak: Python
\* floats, so a zero there raises ZeroDivisionError, which line 662 re-raises.
ReportDividesByZero(s) ==
    \/ s.initial_capital = Zero
    \/ \E k \in 1 .. Len(s.equity_curve) :
           RunningPeak(s.initial_capital, s.equity_curve, k) = Zero

FinishStep(s) ==
    IF ReportDividesByZero(s) THEN Raise(s, "ZeroDivisionError")
    ELSE [s EXCEPT !.pc = "returned", !.result = Report(s)]

(***************************************************************************)
(* run_backtest: actions.  run[r] is the frame of call r.                  *)
(***************************************************************************)
\* A call is identified by its number: one call under Spec, two concurrent
\* calls under SpecPair.
RunIds == {1, 2}

Begin(r) ==
    /\ r \in DOMAIN run
    /\ run[r].pc = "call"
    /\ run' = [run EXCEPT ![r] = BeginStep(run[r])]
    /\ UNCHANGED <<wf, cal, sig, win, svc, rl>>

Bar(r) ==
    /\ r \in DOMAIN run
    /\ run[r].pc = "loop"
    /\ run[r].i <= Len(run[r].data)
    /\ run' = [run EXCEPT ![r] = BarStep(run[r])]
    /\ UNCHANGED <<wf, cal, sig, win, svc, rl>>

Finish(r) ==
    /\ r \in DOMAIN run
    /\ run[r].pc = "loop"
    /\ run[r].i > Len(run[r].data)
    /\ run' = [run EXCEPT ![r] = FinishStep(run[r])]
    /\ UNCHANGED <<wf, cal, sig, win, svc, rl>>

Init ==
    /\ \E d \in DataFrames : \E p \in PredictOutcomes(d) : \E c \in Configs :
           run = [r \in {1} |->
                     NewRun(d, p, Rat(initial_capital_default, 1), c[1], c[2])]
    /\ wf = NoCall
    /\ cal = NoCall
    /\ sig = NoCall
    /\ win = NoCall
    /\ svc = NoCall
    /\ rl = NoCall

Next == \E r \in RunIds : Begin(r) \/ Bar(r) \/ Finish(r)

Spec == Init /\ [][Next]_vars

\* Two calls of run_backtest with the same arguments, their steps interleaved
\* in every order.
InitPair ==
    /\ \E d \in OrderedFrames : \E p \in PredictOutcomes(d) : \E c \in Configs :
           run = [r \in {1, 2} |->
                     NewRun(d, p, Rat(initial_capital_default, 1), c[1], c[2])]
    /\ wf = NoCall
    /\ cal = NoCall
    /\ sig = NoCall
    /\ win = NoCall
    /\ svc = NoCall
    /\ rl = NoCall

SpecPair == InitPair /\ [][Next]_vars

\* Calls with the arguments a caller can pass and the contract excludes:
\* BacktestRequest (lines 62-70) declares initial_capital, transaction_cost
\* and slippage as plain floats, and a frame may hold a price of 0.
\* (initial_capital, transaction_cost, slippage)
EdgeConfigs ==
    {<<Rat(initial_capital_default, 1), Zero, Zero>>,
     <<Zero, Zero, Zero>>,
     <<Rat(-initial_capital_default, 1), Zero, Zero>>,
     <<Rat(initial_capital_default, 1), Rat(-1, 20), Zero>>,
     <<Rat(initial_capital_default, 1), Zero, Rat(-1, 20)>>}

EdgePrices == {Zero, Rat(10, 1)}

EdgeFrames ==
    UNION {[1 .. n -> [timestamp : TimeStamps, price : EdgePrices,
                       entry_price : {col}]] :
               n \in 0 .. MaxBars, col \in EntryColumns}

InitEdge ==
    /\ \E d \in EdgeFrames : \E p \in PredictOutcomes(d) : \E c \in EdgeConfigs :
           run = [r \in {1} |-> NewRun(d, p, c[1], c[2], c[3])]
    /\ wf = NoCall
    /\ cal = NoCall
    /\ sig = NoCall
    /\ win = NoCall
    /\ svc = NoCall
    /\ rl = NoCall

SpecEdge == InitEdge /\ [][Next]_vars

\* Runs of four bars with the service's default costs (lines 67-68), on
\* frames as generate_backtest_data builds them: one row per timestamp in
\* increasing order, no 'entry_price' column.
ScenarioBars == 4
transaction_cost_default == Rat(1, 1000)
slippage_default == Rat(1, 10000)

ScenarioFrames ==
    {[k \in 1 .. ScenarioBars |->
          [timestamp |-> k, price |-> prices[k], entry_price |-> NoColumn]] :
         prices \in [1 .. ScenarioBars -> Prices]}

\* One prediction per signal: Short, Flat, Long.
ScenarioPredictions ==
    [1 .. ScenarioBars -> {Rat(-2, 100), Zero, Rat(2, 100)}]

InitScenario ==
    /\ \E d \in ScenarioFrames : \E v \in ScenarioPredictions :
           run = [r \in {1} |->
                     NewRun(d, [raises |-> FALSE, values |-> v],
                            Rat(initial_capital_default, 1),
                            transaction_cost_default, slippage_default)]
    /\ wf = NoCall
    /\ cal = NoCall
    /\ sig = NoCall
    /\ win = NoCall
    /\ svc = NoCall
    /\ rl = NoCall

SpecScenario == InitScenario /\ [][Next]_vars

\* Runs long enough for a ledger with a winning and a losing close: three
\* bars in timestamp order at no cost, on frames with and without an
\* 'entry_price' column.
LedgerBars == 3

LedgerFrames ==
    {[k \in 1 .. n |->
          [timestamp |-> k, price |-> prices[k], entry_price |-> col]] :
         prices \in [1 .. LedgerBars -> Prices], n \in 0 .. LedgerBars,
         col \in EntryColumns}

InitLedger ==
    /\ \E d \in LedgerFrames : \E p \in PredictOutcomes(d) :
           run = [r \in {1} |->
                     NewRun(d, p, Rat(initial_capital_default, 1), Zero, Zero)]
    /\ wf = NoCall
    /\ cal = NoCall
    /\ sig = NoCall
    /\ win = NoCall
    /\ svc = NoCall
    /\ rl = NoCall

SpecLedger == InitLedger /\ [][Next]_vars

\* Runs in which a short opened at 19 and closed at 58 loses exactly the
\* capital: three bars in timestamp order at no cost, the 'entry_price'
\* column holding the price the short was opened at.
WipeoutPrices == {Rat(19, 1), Rat(58, 1)}

WipeoutFrames ==
    {[k \in 1 .. n |->
          [timestamp |-> k, price |-> prices[k], entry_price |-> Rat(19, 1)]] :
         prices \in [1 .. LedgerBars -> WipeoutPrices], n \in 0 .. LedgerBars}

InitWipeout ==
    /\ \E d \in WipeoutFrames : \E p \in PredictOutcomes(d) :
           run = [r \in {1} |->
                     NewRun(d, p, Rat(initial_capital_default, 1), Zero, Zero)]
    /\ wf = NoCall
    /\ cal = NoCall
    /\ sig = NoCall
    /\ win = NoCall
    /\ svc = NoCall
    /\ rl = NoCall

SpecWipeout == InitWipeout /\ [][Next]_vars

(***************************************************************************)
(* walk_forward_validation(model, X, y, parameters).                       *)
(*                                                                         *)
(* X is the sequence of its rows, a row standing for its 0-based index in  *)
(* the input; y[k] is the label of row k - 1.  The model is opaque: what   *)
(* its fit and predict do is an input (ModelKinds).                        *)
(***************************************************************************)
MaxRows == 66

\* Line 497.
MinTestRows == 20

\* Lengths for which the double product n * 0.7 falls just below the
\* integer 7n/10, so that int() gives one less (n < 330).
TruncatedShort == {90, 170, 180}

Lengths == (0 .. MaxRows) \cup {90}

\* Line 494: int(n_samples * 0.7).
TrainSize(n) ==
    IF n \in TruncatedShort THEN ((7 * n) \div 10) - 1 ELSE (7 * n) \div 10

\* The guard applied to the train segment instead of the test segment.
InsufficientTrainData(train_size, test_size) == train_size < MinTestRows

\* Line 497: the low-data guard.
InsufficientTestData(train_size, test_size) == test_size < MinTestRows

\* A test segment that starts one row early, on the last train row.
TestSliceOverlapping(seq, train_size) == SubSeq(seq, train_size, Len(seq))

\* Lines 501-502: seq[:train_size] and seq[train_size:].
TrainSlice(seq, train_size) == SubSeq(seq, 1, train_size)
TestSlice(seq, train_size) == SubSeq(seq, train_size + 1, Len(seq))

LabelPatterns == {"flat", "alternating", "ramp"}

Label(pattern, row) ==
    CASE pattern = "flat" -> Zero
      [] pattern = "alternating" -> Rat(row % 2, 1)
      [] pattern = "ramp" -> Rat(row % 3, 1)

ModelKinds ==
    {"oracle", "zero", "train_mean", "far", "near", "short",
     "fit_raises", "predict_raises"}

RMean(seq) == RDiv(RSum(seq), Rat(Len(seq), 1))

\* model.predict(X_test) of a model fitted on (X_train, y_train): y_of[row]
\* is the true label of a row, which an exact model returns and a near one
\* misses by 1 on the first test row.
ModelPredict(kind, y_train, X_test, y_of) ==
    CASE kind = "oracle" -> [k \in 1 .. Len(X_test) |-> y_of[X_test[k] + 1]]
      [] kind = "zero" -> [k \in 1 .. Len(X_test) |-> Zero]
      [] kind = "train_mean" ->
             LET m == RMean(y_train) IN [k \in 1 .. Len(X_test) |-> m]
      [] kind = "far" -> [k \in 1 .. Len(X_test) |-> Rat(5, 1)]
      [] kind = "near" ->
             [k \in 1 .. Len(X_test) |->
                 IF k = 1 THEN RAdd(y_of[X_test[k] + 1], One)
                 ELSE y_of[X_test[k] + 1]]
      [] kind = "short" -> [k \in 1 .. Len(X_test) - 1 |-> Zero]

\* ((a - b) ** 2).sum() for two sequences of one length
SquaredDistance(a, b) ==
    RSum([k \in 1 .. Len(a) |->
             LET d == RSub(a[k], b[k]) IN RMul(d, d)])

\* sklearn.metrics.r2_score(y_true, y_pred) for arrays of one length:
\* 1 - SS_res / SS_tot, and for a constant y_true 1.0 on an exact
\* prediction, 0.0 otherwise.
R2Score(y_true, y_pred) ==
    LET mean == RMean(y_true)
        numerator == SquaredDistance(y_true, y_pred)
        denominator ==
            SquaredDistance(y_true, [k \in 1 .. Len(y_true) |-> mean])
    IN  IF denominator # Zero THEN RSub(One, RDiv(numerator, denominator))
        ELSE IF numerator = Zero THEN One
        ELSE Zero

\* The score returned unclamped.
NoClamp(accuracy) == accuracy

\* Line 512: max(0.0, min(1.0, accuracy)).
Clamp(accuracy) == RMax(Zero, RMin(One, accuracy))

\* Lines 498 and 518.
DefaultAccuracy == Rat(1, 2)

NewValidation(n, pattern, kind) ==
    [pc |-> "call",
     X |-> [k \in 1 .. n |-> k - 1],
     y |-> [k \in 1 .. n |-> Label(pattern, k - 1)],
     model |-> kind,
     train_size |-> 0, test_size |-> 0,
     X_train |-> <<>>, X_test |-> <<>>, y_train |-> <<>>, y_test |-> <<>>,
     fit_calls |-> <<>>, predict_calls |-> <<>>,
     y_pred |-> <<>>, r2 |-> <<>>, result |-> <<>>, error |-> ""]

\* Lines 516-518: the handler of every exception raised in the body.
Except(w, e) == [w EXCEPT !.pc = "returned", !.error = e,
                          !.result = DefaultAccuracy]

\* Lines 493-502.
WFSplit ==
    /\ wf.pc = "call"
    /\ LET n_samples == Len(wf.X)
           train_size == TrainSize(n_samples)
           test_size == n_samples - train_size
       IN  wf' = IF InsufficientTestData(train_size, test_size)
                 THEN [wf EXCEPT !.pc = "returned",
                                 !.train_size = train_size,
                                 !.test_size = test_size,
                                 !.result = DefaultAccuracy]
                 ELSE [wf EXCEPT !.pc = "fit",
                                 !.train_size = train_size,
                                 !.test_size = test_size,
                                 !.X_train = TrainSlice(wf.X, train_size),
                                 !.X_test = TestSlice(wf.X, train_size),
                                 !.y_train = TrainSlice(wf.y, train_size),
                                 !.y_test = TestSlice(wf.y, train_size)]
    /\ UNCHANGED <<run, cal, sig, win, svc, rl>>

\* Line 505: model.fit(X_train, y_train).
WFFit ==
    /\ wf.pc = "fit"
    /\ wf' = IF wf.model = "fit_raises"
             THEN Except([wf EXCEPT !.fit_calls = Append(@, wf.X_train)], "fit")
             ELSE [wf EXCEPT !.pc = "predict",
                             !.fit_calls = Append(@, wf.X_train)]
    /\ UNCHANGED <<run, cal, sig, win, svc, rl>>

\* Line 506: y_pred = model.predict(X_test).
WFPredict ==
    /\ wf.pc = "predict"
    /\ wf' = IF wf.model = "predict_raises"
             THEN Except([wf EXCEPT !.predict_calls = Append(@, wf.X_test)],
                         "predict")
             ELSE [wf EXCEPT !.pc = "score",
                             !.predict_calls = Append(@, wf.X_test),
                             !.y_pred = ModelPredict(wf.model, wf.y_train,
                                                     wf.X_test, wf.y)]
    /\ UNCHANGED <<run, cal, sig, win, svc, rl>>

\* Lines 509-514: r2_score raises ValueError on arrays of different lengths.
WFScore ==
    /\ wf.pc = "score"
    /\ wf' = IF Len(wf.y_pred) # Len(wf.y_test)
             THEN Except(wf, "ValueError")
             ELSE LET accuracy == R2Score(wf.y_test, wf.y_pred)
                  IN  [wf EXCEPT !.pc = "returned",
                                 !.r2 = accuracy,
                                 !.result = Clamp(accuracy)]
    /\ UNCHANGED <<run, cal, sig, win, svc, rl>>

InitWF ==
    /\ run = <<>>
    /\ cal = NoCall
    /\ sig = NoCall
    /\ win = NoCall
    /\ svc = NoCall
    /\ rl = NoCall
    /\ \E n \in Lengths : \E pattern \in LabelPatterns : \E kind \in ModelKinds :
           wf = NewValidation(n, pattern, kind)

NextWF == WFSplit \/ WFFit \/ WFPredict \/ WFScore

SpecWF == InitWF /\ [][NextWF]_vars

(***************************************************************************)
(* BinaryCalibrator.calibrate(q).                                          *)
(*                                                                         *)
(* long_cal and short_cal are fitted curves loaded from disk; the model    *)
(* draws each from Curves, monotone maps of the margin that also leave     *)
(* [0, 1], which is what np.clip is there for.                             *)
(***************************************************************************)
Scores == {-1, 0, 1}

Curves == {"zero", "one", "quarter", "step", "ramp"}

\* cal.predict([s])[0]
CurvePredict(curve, s) ==
    CASE curve = "zero" -> Zero
      [] curve = "one" -> One
      [] curve = "quarter" -> Rat(1, 4)
      [] curve = "step" -> IF RLt(s, Zero) THEN Zero ELSE Rat(3, 4)
      [] curve = "ramp" -> RDiv(RAdd(One, s), Rat(2, 1))

IMax(a, b) == IF a < b THEN b ELSE a

\* np.clip(x, 0, 1)
Clip(x) == RMin(RMax(x, Zero), One)

\* The three raw values returned as they are.
NotNormalized(p_long, p_short, p_flat) == <<p_long, p_short, p_flat>>

\* What IEEE division gives for 0.0 / 0.0 (numpy floats do not raise).
NaN == <<0, 0>>

\* Lines 13-14: divide the three raw values by their sum.
Normalize(p_long, p_short, p_flat) ==
    LET s == RAdd(RAdd(p_long, p_short), p_flat)
    IN  IF s = Zero THEN <<NaN, NaN, NaN>>
        ELSE <<RDiv(p_long, s), RDiv(p_short, s), RDiv(p_flat, s)>>

\* No probability left for flat.
FlatProbabilityZero(p_long, p_short) == Zero

\* Line 12.
FlatProbability(p_long, p_short) ==
    RMax(Zero, RSub(One, RMax(p_long, p_short)))

\* Lines 8-12: the three values before the division.
RawProbabilities(long_cal, short_cal, q) ==
    LET s_long == Rat(q[1] - IMax(q[2], q[3]), 1)
        s_short == Rat(q[2] - IMax(q[1], q[3]), 1)
        p_long == Clip(CurvePredict(long_cal, s_long))
        p_short == Clip(CurvePredict(short_cal, s_short))
    IN  <<p_long, p_short, FlatProbability(p_long, p_short)>>

\* Lines 8-14.
calibrate(long_cal, short_cal, q) ==
    LET raw == RawProbabilities(long_cal, short_cal, q)
    IN  Normalize(raw[1], raw[2], raw[3])

Calibrate ==
    /\ cal.pc = "call"
    /\ cal' = [cal EXCEPT !.pc = "returned",
                          !.result = calibrate(cal.long_cal, cal.short_cal, cal.q)]
    /\ UNCHANGED <<run, wf, sig, win, svc, rl>>

InitCal ==
    /\ run = <<>>
    /\ wf = NoCall
    /\ sig = NoCall
    /\ win = NoCall
    /\ svc = NoCall
    /\ rl = NoCall
    /\ \E q \in Scores \X Scores \X Scores :
       \E long_cal \in Curves : \E short_cal \in Curves :
           cal = [pc |-> "call", q |-> q, long_cal |-> long_cal,
                  short_cal |-> short_cal, result |-> <<>>]

NextCal == Calibrate

SpecCal == InitCal /\ [][NextCal]_vars

(***************************************************************************)
(* decide_signal(probabilities), src/model-service/main.py.                *)
(*                                                                         *)
(* probabilities is the triple [sell, hold, buy] the /predict handler      *)
(* passes on from the calibrator.                                          *)
(***************************************************************************)
ProbabilitySteps == 10

\* The triples of probabilities in steps of 1/ProbabilitySteps that sum to 1.
ProbabilityTriples ==
    UNION {{<<Rat(a, ProbabilitySteps), Rat(b, ProbabilitySteps),
              Rat(ProbabilitySteps - a - b, ProbabilitySteps)>> :
                b \in 0 .. ProbabilitySteps - a} : a \in 0 .. ProbabilitySteps}

\* Lines 121, 124: the probability a buy or a sell has to exceed.
DecisionThreshold == Rat(6, 10)

\* Lines 116-131.
decide_signal(probabilities) ==
    LET sell_prob == probabilities[1]
        hold_prob == probabilities[2]
        buy_prob == probabilities[3]
    IN  IF RGt(buy_prob, DecisionThreshold)
        THEN [signal |-> 1, confidence |-> buy_prob]
        ELSE IF RGt(sell_prob, DecisionThreshold)
        THEN [signal |-> -1, confidence |-> sell_prob]
        ELSE [signal |-> 0, confidence |-> hold_prob]

Decide ==
    /\ sig.pc = "call"
    /\ sig' = [sig EXCEPT !.pc = "returned",
                          !.result = decide_signal(sig.probabilities)]
    /\ UNCHANGED <<run, wf, cal, win, svc, rl>>

InitSig ==
    /\ run = <<>>
    /\ wf = NoCall
    /\ cal = NoCall
    /\ win = NoCall
    /\ svc = NoCall
    /\ rl = NoCall
    /\ \E p \in ProbabilityTriples :
           sig = [pc |-> "call", probabilities |-> p, result |-> <<>>]

NextSig == Decide

SpecSig == InitSig /\ [][NextSig]_vars

(***************************************************************************)
(* FeaturePipe.make_window(features_live, window_store),                   *)
(* src/model-service/features.py, on a store built by make_window_store,   *)
(* src/model-service/registry.py.                                          *)
(*                                                                         *)
(* win.window_store is the deque; win.arrivals records every row handed to *)
(* window_store.append, in order (it is not program state: the claims read *)
(* it); win.X is what the last call returned.                              *)
(***************************************************************************)
MaxCapacity == 2
MaxCalls == 3

feature_order == <<"f1", "f2">>

\* features_live: a value for each feature name it holds; a name of
\* feature_order may be missing.
FeatureMaps == UNION {[names -> {1, 2}] : names \in SUBSET {"f1", "f2"}}

\* The fitted scaler: per feature a mean and a scale.
Scalers ==
    {[mean |-> <<Zero, Zero>>, scale |-> <<One, One>>],
     [mean |-> <<One, Rat(3, 2)>>, scale |-> <<Rat(2, 1), Rat(1, 2)>>]}

\* Line 8: the row in feature order, 0.0 for a missing name.
MakeRow(features_live) ==
    [k \in 1 .. Len(feature_order) |->
        IF feature_order[k] \in DOMAIN features_live
        THEN Rat(features_live[feature_order[k]], 1) ELSE Zero]

\* A deque that never evicts.
AppendUnbounded(store, maxlen, row) == Append(store, row)

\* deque(maxlen).append(row): at capacity the leftmost element is dropped; a
\* deque of maxlen 0 drops the row itself.
DequeAppend(store, maxlen, row) ==
    IF maxlen = 0 THEN store
    ELSE IF Len(store) = maxlen THEN Append(Tail(store), row)
    ELSE Append(store, row)

\* scaler.transform on one row: (x - mean) / scale, feature by feature.
TransformRow(scaler, row) ==
    [k \in 1 .. Len(row) |-> RDiv(RSub(row[k], scaler.mean[k]), scaler.scale[k])]

\* Lines 8-11.  np.stack of an empty deque raises ValueError.
make_window(w, features_live) ==
    LET row == MakeRow(features_live)
        store == DequeAppend(w.window_store, w.maxlen, row)
        called == [w EXCEPT !.n = w.n + 1,
                            !.arrivals = Append(w.arrivals, row),
                            !.window_store = store]
    IN  IF store = <<>>
        THEN [called EXCEPT !.X = <<>>, !.error = "ValueError"]
        ELSE [called EXCEPT !.error = "",
                            !.X = [j \in 1 .. Len(store) |->
                                      TransformRow(w.scaler, store[j])]]

MakeWindow ==
    /\ win.pc = "session"
    /\ win.n < MaxCalls
    /\ \E features_live \in FeatureMaps : win' = make_window(win, features_live)
    /\ UNCHANGED <<run, wf, cal, sig, svc, rl>>

InitWin ==
    /\ run = <<>>
    /\ wf = NoCall
    /\ cal = NoCall
    /\ sig = NoCall
    /\ svc = NoCall
    /\ rl = NoCall
    /\ \E maxlen \in 0 .. MaxCapacity : \E scaler \in Scalers :
           win = [pc |-> "session", maxlen |-> maxlen, scaler |-> scaler,
                  window_store |-> <<>>, arrivals |-> <<>>, n |-> 0,
                  X |-> <<>>, error |-> ""]

NextWin == MakeWindow

SpecWin == InitWin /\ [][NextWin]_vars

(***************************************************************************)
(* The request handlers of the model service (src/model-service/app.py):   *)
(* train_model, backtest_model and predict over the module's globals, the  *)
(* model registry and numpy's global random-number generator.  None of    *)
(* the coroutines a handler awaits suspends, so the event loop runs each  *)
(* handler from its first statement to its response before it starts the  *)
(* next one: a handler is one step, and requests interleave in any order. *)
(***************************************************************************)
\* Names a client gives a model, chosen so that none is a substring of a
\* registry key made from another.
ModelNames == {"rf"}

UnknownNames == {"lstm"}

Symbols == {"EURUSD", "GBPUSD"}

\* Rows the requested date range yields: fewer than backtest_model needs,
\* enough for backtest_model but not for train_model, enough for both.
TrainingRows == {60, 120}

BacktestRows == {40, 60}

\* What walk_forward_validation returns for a request's data.
Accuracies == {Zero, Rat(1, 2)}

MinTrainingRows == 100

MinBacktestRows == 50

MaxRequests == 3

MaxSecond == 1

\* numpy's global generator: how it was seeded and how many data sets were
\* drawn from it since.
OsSeeded == [seed |-> "os", drawn |-> 0]

Seeded42 == [seed |-> "42", drawn |-> 0]

Draw(rng) == [rng EXCEPT !.drawn = @ + 1]

NoData == [rows |-> 0, stream |-> [seed |-> "none", drawn |-> 0]]

\* The data set is the one the generator's state at the call determines.
generate_training_data(rng, rows) ==
    [data |-> [rows |-> rows, stream |-> rng], rng |-> Draw(rng)]

generate_backtest_data(rng, rows) ==
    [data |-> [rows |-> rows, stream |-> Seeded42], rng |-> Draw(Seeded42)]

HTTPException(status_code, detail) ==
    [status_code |-> status_code, detail |-> detail]

\* The handlers' "except Exception as e": an HTTPException raised in the
\* try block is an Exception.
ExceptException(e) == HTTPException(500, e.detail)

RegistryKey(model_name, symbol, second) ==
    [model_name |-> model_name, symbol |-> symbol, second |-> second]

\* models[model_name] = model; model_metadata[model_name] = {...}: a dict
\* keeps the position of a key it already holds.
StoreModel(registry, entry) ==
    IF \E k \in 1 .. Len(registry) : registry[k].key = entry.key
    THEN [k \in 1 .. Len(registry) |->
              IF registry[k].key = entry.key THEN entry ELSE registry[k]]
    ELSE Append(registry, entry)

\* One served request: the call, the second it started in, the response's
\* status and detail, the registry key it names and the data it computed
\* with.
Served(call, second, status, detail, key, data) ==
    [call |-> call, second |-> second, status |-> status, detail |-> detail,
     key |-> key, data |-> data]

NoKey == RegistryKey("", "", 0)

Failed(s, call, e, data) ==
    LET r == ExceptException(e)
    IN  Served(call, s.second, r.status_code, r.detail, NoKey, data)

train_model(s, call) ==
    LET g == generate_training_data(s.rng, call.rows)
        key == RegistryKey(call.model_name, call.symbol, s.second)
        entry == [key |-> key, symbol |-> call.symbol,
                  accuracy |-> call.accuracy, training_data |-> g.data]
    IN  IF call.rows < MinTrainingRows
        THEN [s EXCEPT !.rng = g.rng,
                       !.log = Append(@, Failed(s, call,
                                   HTTPException(400, "insufficient"), g.data))]
        ELSE [s EXCEPT !.rng = g.rng,
                       !.models = StoreModel(@, entry),
                       !.log = Append(@, Served(call, s.second, 200,
                                   "completed", key, g.data))]

\* The first registry entry of the symbol whose key contains the name.
RECURSIVE FindModel(_, _, _, _)
FindModel(registry, model_name, symbol, k) ==
    IF k > Len(registry) THEN 0
    ELSE IF registry[k].symbol = symbol /\ registry[k].key.model_name = model_name
         THEN k
         ELSE FindModel(registry, model_name, symbol, k + 1)

backtest_model(s, call) ==
    LET found == FindModel(s.models, call.model_name, call.symbol, 1)
        g == generate_backtest_data(s.rng, call.rows)
    IN  IF found = 0
        THEN [s EXCEPT !.log = Append(@, Failed(s, call,
                                   HTTPException(404, "not found"), NoData))]
        ELSE IF call.rows < MinBacktestRows
        THEN [s EXCEPT !.rng = g.rng,
                       !.log = Append(@, Failed(s, call,
                                   HTTPException(400, "insufficient"), g.data))]
        ELSE IF call.raises
        THEN [s EXCEPT !.rng = g.rng,
                       !.log = Append(@, Failed(s, call,
                                   HTTPException(500, "run_backtest"), g.data))]
        ELSE [s EXCEPT !.rng = g.rng,
                       !.log = Append(@, Served(call, s.second, 200,
                                   "results", s.models[found].key, g.data))]

\* The loop of predict: best is the index of best_model_name, 0 for None.
RECURSIVE BestModel(_, _, _, _, _)
BestModel(registry, symbol, k, best, best_accuracy) ==
    IF k > Len(registry) THEN best
    ELSE IF registry[k].symbol = symbol
            /\ RLt(best_accuracy, registry[k].accuracy)
         THEN BestModel(registry, symbol, k + 1, k, registry[k].accuracy)
         ELSE BestModel(registry, symbol, k + 1, best, best_accuracy)

predict(s, call) ==
    LET best == BestModel(s.models, call.symbol, 1, 0, Zero)
    IN  IF best = 0
        THEN [s EXCEPT !.log = Append(@, Failed(s, call,
                                   HTTPException(404, "no model"), NoData))]
        ELSE [s EXCEPT !.log = Append(@, Served(call, s.second, 200,
                                   "prediction", s.models[best].key, NoData))]

TrainCalls ==
    [kind : {"train"}, model_name : ModelNames, symbol : Symbols,
     rows : TrainingRows, accuracy : Accuracies, raises : {FALSE}]

BacktestCalls ==
    [kind : {"backtest"}, model_name : ModelNames, symbol : Symbols,
     rows : BacktestRows, accuracy : {Zero}, raises : BOOLEAN]
    \cup [kind : {"backtest"}, model_name : UnknownNames, symbol : Symbols,
          rows : {60}, accuracy : {Zero}, raises : {FALSE}]

PredictCalls ==
    [kind : {"predict"}, model_name : {""}, symbol : Symbols, rows : {0},
     accuracy : {Zero}, raises : {FALSE}]

\* The service after startup with an empty models directory.
Started(second) ==
    [pc |-> "serving", second |-> second, rng |-> OsSeeded, models |-> <<>>,
     log |-> <<>>]

Serving == svc.pc = "serving" /\ Len(svc.log) < MaxRequests

Train ==
    /\ Serving
    /\ \E call \in TrainCalls : svc' = train_model(svc, call)
    /\ UNCHANGED <<run, wf, cal, sig, win, rl>>

Backtest ==
    /\ Serving
    /\ \E call \in BacktestCalls : svc' = backtest_model(svc, call)
    /\ UNCHANGED <<run, wf, cal, sig, win, rl>>

Predict ==
    /\ Serving
    /\ \E call \in PredictCalls : svc' = predict(svc, call)
    /\ UNCHANGED <<run, wf, cal, sig, win, rl>>

\* datetime.now() moves to the next second between two requests.
ClockTick ==
    /\ svc.pc = "serving"
    /\ svc.second < MaxSecond
    /\ svc' = [svc EXCEPT !.second = @ + 1]
    /\ UNCHANGED <<run, wf, cal, sig, win, rl>>

InitSvc ==
    /\ run = <<>>
    /\ wf = NoCall
    /\ cal = NoCall
    /\ sig = NoCall
    /\ win = NoCall
    /\ svc = Started(0)
    /\ rl = NoCall

NextSvc == Train \/ Backtest \/ Predict \/ ClockTick

SpecSvc == InitSvc /\ [][NextSvc]_vars

(***************************************************************************)
(* RateLimiter.wait (src/ai-trading-system-deploy/alpha_vantage_pipeline   *)
(* .py) called by the coroutines Pipeline.ingest_daily starts, one per     *)
(* symbol, through AlphaVantageClient._request on one shared limiter.  A   *)
(* coroutine runs until it awaits asyncio.sleep, and again from its wake-  *)
(* up to the end of wait.  The clock counts hundredths of a second.        *)
(***************************************************************************)
TicksPerSecond == 100

\* The rolling window of wait, 60 seconds.
Window == 60 * TicksPerSecond

\* The 0.01 seconds wait adds to its sleep.
Epsilon == 1

MaxCoroutines == 3

\* Steps of the clock in one run.
MaxAdvances == 4

Coroutines == 1 .. MaxCoroutines

\* max_calls_per_min values a client is built with.
MaxCallsChoices == {1, 2}

\* Steps of the monotonic clock between two steps of the event loop.
Delays == {Epsilon, Window \div 2, Window + Epsilon}

\* [t for t in self._ticks if t >= window_start]
RECURSIVE FilterTicks(_, _)
FilterTicks(ticks, window_start) ==
    IF ticks = <<>> THEN <<>>
    ELSE IF Head(ticks) >= window_start
         THEN <<Head(ticks)>> \o FilterTicks(Tail(ticks), window_start)
         ELSE FilterTicks(Tail(ticks), window_start)

\* self._ticks.append(_now()), after which _request sends the request.
Release(l, c) ==
    [l EXCEPT !._ticks = Append(@, l.now),
              !.released = Append(@, l.now),
              !.co[c] = [pc |-> "released", wake |-> 0]]

\* wait from its first statement to the await, or to its end when it does
\* not sleep.
WaitStep(l, c) ==
    LET now == l.now
        window_start == now - Window
        kept == FilterTicks(l._ticks, window_start)
        filtered == [l EXCEPT !._ticks = kept]
    IN  IF Len(kept) >= l.max_calls
        THEN LET sleep_for == Window - (now - kept[1]) + Epsilon
             IN  [filtered EXCEPT !.co[c] = [pc |-> "sleeping",
                                            wake |-> now + sleep_for]]
        ELSE Release(filtered, c)

\* wait from the end of the sleep.
WakeStep(l, c) == Release(l, c)

RlWait(c) ==
    /\ rl.pc = "running"
    /\ rl.co[c].pc = "start"
    /\ rl' = WaitStep(rl, c)
    /\ UNCHANGED <<run, wf, cal, sig, win, svc>>

RlWake(c) ==
    /\ rl.pc = "running"
    /\ rl.co[c].pc = "sleeping"
    /\ rl.now >= rl.co[c].wake
    /\ rl' = WakeStep(rl, c)
    /\ UNCHANGED <<run, wf, cal, sig, win, svc>>

RlAdvance ==
    /\ rl.pc = "running"
    /\ \E d \in Delays :
           /\ rl.advances < MaxAdvances
           /\ rl' = [rl EXCEPT !.now = @ + d, !.advances = @ + 1]
    /\ UNCHANGED <<run, wf, cal, sig, win, svc>>

InitRl ==
    /\ run = <<>>
    /\ wf = NoCall
    /\ cal = NoCall
    /\ sig = NoCall
    /\ win = NoCall
    /\ svc = NoCall
    /\ \E max_calls \in MaxCallsChoices :
           rl = [pc |-> "running", now |-> 0, advances |-> 0,
                 max_calls |-> max_calls,
                 _ticks |-> <<>>, released |-> <<>>,
                 co |-> [c \in Coroutines |-> [pc |-> "start", wake |-> 0]]]

NextRl == RlAdvance \/ \E c \in Coroutines : RlWait(c) \/ RlWake(c)

SpecRl == InitRl /\ [][NextRl]_vars

(***************************************************************************)
(* Claims about run_backtest.                                              *)
(***************************************************************************)
ZeroCost(s) == s.transaction_cost = Zero /\ s.slippage = Zero

\* C1: capital conservation.  With transaction_cost = 0 and slippage = 0,
\* every signal sequence, reversals included, ends in a report whose
\* final_capital is initial_capital plus the sum of the ledger's pnl: the
\* run does not die on a close, and the returned figures agree.
C1_CapitalConservation ==
    \A r \in DOMAIN run :
        ZeroCost(run[r]) =>
            /\ ~(run[r].pc = "raised" /\ run[r].error = "KeyError")
            /\ run[r].pc = "returned" =>
                   run[r].result.final_capital =
                       RAdd(run[r].initial_capital,
                            RSum(PnlOf(run[r].result.trades)))

\* The pnl the ledger's k-th trade, a close, should carry: computed from the
\* price of the open trade before it (the entry price the simulator stored).
ClosePnlFromLedger(s, k) ==
    LET t == s.trades[k]
        entry == s.trades[k - 1].price
    IN  IF t.type = "close_short"
        THEN RMul(RMul(RSub(entry, t.price), t.quantity), NetFactor(s))
        ELSE RMul(RMul(RSub(t.price, entry), t.quantity), NetFactor(s))

\* C2: a close realizes pnl from the entry price stored when the position
\* was opened, not from a field of the current bar, and closing succeeds on
\* a bar that carries only timestamp and price.
C2_ClosePnlFromStoredEntry ==
    \A r \in DOMAIN run :
        /\ ~(run[r].pc = "raised" /\ run[r].error = "KeyError")
        /\ \A k \in 1 .. Len(run[r].trades) :
               run[r].trades[k].type \in {"close_short", "close_long"} =>
                   /\ k > 1
                   /\ run[r].trades[k].pnl = ClosePnlFromLedger(run[r], k)

NonNegativeEquity(curve) ==
    \A k \in 1 .. Len(curve) : RGe(curve[k].equity, Zero)

\* C4: for a run whose equity curve has only non-negative equity values, the
\* reported max_drawdown lies in [0, 1].
C4_DrawdownBound ==
    \A r \in DOMAIN run :
        (run[r].pc = "returned" /\ NonNegativeEquity(run[r].result.equity_curve)) =>
            /\ RGe(run[r].result.max_drawdown, Zero)
            /\ RLe(run[r].result.max_drawdown, One)

\* A returned run with a non-negative curve and a drawdown strictly inside
\* (0, 1): the loop has divided a real loss by a real peak.
C4_Witness ==
    \E r \in DOMAIN run :
        /\ run[r].pc = "returned"
        /\ Len(run[r].result.equity_curve) = 2
        /\ NonNegativeEquity(run[r].result.equity_curve)
        /\ RGt(run[r].result.max_drawdown, Zero)
        /\ RLt(run[r].result.max_drawdown, One)

\* The bound needs its precondition: a short held through a price rise takes
\* the equity below zero and the drawdown above 1.
C4_NegativeEquityReached ==
    \E r \in DOMAIN run :
        /\ run[r].pc = "returned"
        /\ RGt(run[r].result.max_drawdown, One)

\* C9: run_backtest on an empty price-bar sequence fails with an error; it
\* does not return a report.
C9_EmptyInputRejected ==
    \A r \in DOMAIN run :
        run[r].data = <<>> => run[r].pc # "returned"

\* C10: a sequence whose timestamps are not strictly increasing is rejected
\* before any trade or equity point is produced, so every returned equity
\* curve has strictly increasing timestamps.
C10_TimestampsValidated ==
    \A r \in DOMAIN run :
        /\ ~StrictlyIncreasing(TimestampsOf(run[r].data)) =>
               /\ run[r].trades = <<>>
               /\ run[r].equity_curve = <<>>
               /\ run[r].pc # "returned"
        /\ run[r].pc = "returned" =>
               StrictlyIncreasing(TimestampsOf(run[r].result.equity_curve))

InvalidConfiguration(s) ==
    \/ RLe(s.initial_capital, Zero)
    \/ RLt(s.transaction_cost, Zero)
    \/ RLt(s.slippage, Zero)

\* C11: a run with initial_capital <= 0, or a negative transaction_cost, or
\* a negative slippage is rejected before the first bar is processed: it
\* appends no trade, computes no equity point and returns no report.
C11_ConfigurationRejected ==
    \A r \in DOMAIN run :
        InvalidConfiguration(run[r]) =>
            /\ run[r].trades = <<>>
            /\ run[r].equity_curve = <<>>
            /\ run[r].pc # "returned"

\* The signal of the bar a call is about to process.
AtBar(s) == s.pc = "loop" /\ s.i <= Len(s.data)
LongSignal(s) == RGt(s.predictions[s.i], Rat(1, 100))
ShortSignal(s) == RLt(s.predictions[s.i], Rat(-1, 100))

ReversalBar(s) ==
    /\ AtBar(s)
    /\ \/ LongSignal(s) /\ RLt(s.position, Zero)
       \/ ShortSignal(s) /\ RGt(s.position, Zero)

\* What C12 says of the step from s to t over a reversal bar.
ReversalStep(s, t) ==
    LET row == s.data[s.i]
        n == Len(s.trades)
    IN  /\ Len(t.trades) = n + 2
        /\ SubSeq(t.trades, 1, n) = s.trades
        /\ t.trades[n + 1].type =
               (IF LongSignal(s) THEN "close_short" ELSE "close_long")
        /\ t.trades[n + 2].type =
               (IF LongSignal(s) THEN "open_long" ELSE "open_short")
        /\ t.trades[n + 1].timestamp = row.timestamp
        /\ t.trades[n + 2].timestamp = row.timestamp
        /\ t.trades[n + 2].pnl = Zero
        /\ IF LongSignal(s) THEN RGt(t.position, Zero) ELSE RLt(t.position, Zero)

\* C12: on a bar whose signal is opposite to the current non-zero position
\* the step appends the close trade of the old position and then the open
\* trade of the new one, both with the bar's timestamp; the open has pnl 0
\* and the position's sign afterwards is the signal's direction.
C12_ReversalOrdering ==
    [][\A r \in DOMAIN run :
           (ReversalBar(run[r]) /\ run'[r] # run[r]) =>
               ReversalStep(run[r], run'[r])]_vars

\* A bar that asks for no trade: a Flat signal, or a signal in the direction
\* of the position already held.
NoTradeBar(s) ==
    /\ AtBar(s)
    /\ \/ RGe(s.predictions[s.i], Rat(-1, 100)) /\ RLe(s.predictions[s.i], Rat(1, 100))
       \/ LongSignal(s) /\ RGt(s.position, Zero)
       \/ ShortSignal(s) /\ RLt(s.position, Zero)

\* C13: on a bar whose signal is Flat (-0.01 <= prediction <= 0.01), or Long
\* while long, or Short while short, the step appends no trade, leaves
\* capital, position and entry price as they were and appends exactly one
\* equity point.
C13_NoTradeBar ==
    [][\A r \in DOMAIN run :
           (NoTradeBar(run[r]) /\ run'[r] # run[r]) =>
               /\ run'[r].trades = run[r].trades
               /\ run'[r].capital = run[r].capital
               /\ run'[r].position = run[r].position
               /\ run'[r].entry_price = run[r].entry_price
               /\ Len(run'[r].equity_curve) = Len(run[r].equity_curve) + 1
               /\ SubSeq(run'[r].equity_curve, 1, Len(run[r].equity_curve)) =
                      run[r].equity_curve]_vars

\* A run that opened a long on bar 1 and met a second Long signal on bar 2:
\* one trade, two equity points, the position of bar 1 still held.
C13_Witness ==
    \E r \in DOMAIN run :
        /\ run[r].pc = "loop" /\ run[r].i = 3
        /\ run[r].predictions[2] = Rat(2, 100)
        /\ Len(run[r].trades) = 1 /\ run[r].trades[1].type = "open_long"
        /\ Len(run[r].equity_curve) = 2
        /\ run[r].equity_curve[2].position = run[r].trades[1].quantity

\* The curve of a call after k bars: k points, point j on bar j; between
\* bars the last point shows the position held and capital + position * price.
CurveMatchesBars(s) ==
    LET k == Len(s.equity_curve)
    IN  /\ s.pc \in {"loop", "returned"} => s.i = k + 1
        /\ k <= Len(s.data)
        /\ \A j \in 1 .. k :
               /\ s.equity_curve[j].timestamp = s.data[j].timestamp
               /\ s.equity_curve[j].price = s.data[j].price
        /\ (s.pc \in {"loop", "returned"} /\ k > 0) =>
               /\ s.equity_curve[k].position = s.position
               /\ s.equity_curve[k].equity =
                      RAdd(s.capital, RMul(s.position, s.data[k].price))

\* C14: after k bars the equity curve holds exactly k points; point i has
\* the timestamp and price of bar i, the position held after that bar and
\* equity = capital + position * price after that bar's trades, whatever
\* the position's sign; a point written once stays as it is.
C14_EquityCurvePerBar ==
    /\ [](\A r \in DOMAIN run : CurveMatchesBars(run[r]))
    /\ [][\A r \in DOMAIN run :
             /\ Len(run'[r].equity_curve) \in
                    {Len(run[r].equity_curve), Len(run[r].equity_curve) + 1}
             /\ SubSeq(run'[r].equity_curve, 1, Len(run[r].equity_curve)) =
                    run[r].equity_curve]_vars

\* Two bars processed with a short held over a price change: the second
\* point marks the short at the new price.
C14_Witness ==
    \E r \in DOMAIN run :
        /\ run[r].pc = "loop" /\ run[r].i = 3
        /\ Len(run[r].equity_curve) = 2
        /\ RLt(run[r].position, Zero)
        /\ run[r].equity_curve[2].price # run[r].equity_curve[1].price
        /\ run[r].equity_curve[2].equity # run[r].equity_curve[1].equity
        /\ run[r].equity_curve[2].equity # run[r].capital

\* C15: the ledger is append-only, every step leaves the trades recorded so
\* far in place and unchanged, and the timestamps of the trades in the
\* ledger never decrease.
C15_LedgerAppendOnly ==
    /\ [](\A r \in DOMAIN run : \A k \in 1 .. Len(run[r].trades) - 1 :
             run[r].trades[k].timestamp <= run[r].trades[k + 1].timestamp)
    /\ [][\A r \in DOMAIN run :
             /\ Len(run'[r].trades) >= Len(run[r].trades)
             /\ SubSeq(run'[r].trades, 1, Len(run[r].trades)) = run[r].trades]_vars

\* Scenario B: four bars, signals Long, Short, Long, Short, cost 0.001 and
\* slippage 0.0001.
ScenarioB(s) ==
    /\ Len(s.data) = 4
    /\ s.model_predict.values =
           <<Rat(2, 100), Rat(-2, 100), Rat(2, 100), Rat(-2, 100)>>
    /\ s.transaction_cost = Rat(1, 1000)
    /\ s.slippage = Rat(1, 10000)

\* C16: Scenario B completes, and its ledger holds exactly 4 trades, an
\* open, a close, an open, a close.
C16_ScenarioB ==
    \A r \in DOMAIN run :
        ScenarioB(run[r]) =>
            /\ run[r].pc # "raised"
            /\ run[r].pc = "returned" =>
                   /\ Len(run[r].result.trades) = 4
                   /\ \A k \in {1, 3} :
                          run[r].result.trades[k].type \in {"open_long", "open_short"}
                   /\ \A k \in {2, 4} :
                          run[r].result.trades[k].type \in {"close_long", "close_short"}

\* C17: per-bar atomicity.  A step over a bar, whether it completes or
\* raises, leaves either every effect of the bar (its trades, the capital
\* and position update, its equity point) or none: a trade is never in the
\* ledger without the equity point of its bar.
C17_BarAtomic ==
    [][\A r \in DOMAIN run :
           (AtBar(run[r]) /\ run'[r] # run[r]) =>
               \/ /\ run'[r].capital = run[r].capital
                  /\ run'[r].position = run[r].position
                  /\ run'[r].trades = run[r].trades
                  /\ run'[r].equity_curve = run[r].equity_curve
               \/ /\ run'[r].pc = "loop"
                  /\ Len(run'[r].equity_curve) = Len(run[r].equity_curve) + 1]_vars

\* The positions of the winning and of the losing trades of a ledger, and
\* the sum of the pnl over a set of positions.
Winners(trades) == {k \in 1 .. Len(trades) : RGt(trades[k].pnl, Zero)}
Losers(trades) == {k \in 1 .. Len(trades) : RLt(trades[k].pnl, Zero)}
PnlOver(trades, positions) ==
    RSum([k \in 1 .. Len(trades) |->
             IF k \in positions THEN trades[k].pnl ELSE Zero])

\* C22: the reported win_rate is the number of ledger trades with pnl > 0
\* divided by the number of all ledger trades, the opening trades with
\* pnl = 0 counted in the denominator, and 0 for an empty ledger.
C22_WinRate ==
    \A r \in DOMAIN run :
        run[r].pc = "returned" =>
            /\ run[r].result.trades = run[r].trades
            /\ run[r].result.win_rate =
                   (IF run[r].trades = <<>> THEN Zero
                    ELSE Rat(Cardinality(Winners(run[r].trades)),
                             Len(run[r].trades)))

\* A report over five trades, one of them a winning close, one a losing
\* close and three opens: win_rate 1/5.
C22_Witness ==
    \E r \in DOMAIN run :
        /\ run[r].pc = "returned"
        /\ Len(run[r].trades) = 5
        /\ Cardinality(Winners(run[r].trades)) = 1
        /\ Cardinality(Losers(run[r].trades)) = 1
        /\ run[r].result.win_rate = Rat(1, 5)

\* C23: the reported profit_factor is the sum of the positive pnl divided
\* by the absolute value of the sum of the negative pnl; it is 0 whenever
\* no trade has pnl < 0, profitable trades or not, and the divisor is never
\* 0 when the division is made.
C23_ProfitFactor ==
    \A r \in DOMAIN run :
        run[r].pc = "returned" =>
            LET trades == run[r].trades
                gains == PnlOver(trades, Winners(trades))
                losses == PnlOver(trades, Losers(trades))
            IN  IF Losers(trades) = {}
                THEN run[r].result.profit_factor = Zero
                ELSE /\ losses # Zero
                     /\ run[r].result.profit_factor = RDiv(gains, RAbs(losses))

\* A report over a ledger with a winning and a losing close: the quotient
\* of two non-zero sums.
C23_Witness ==
    \E r \in DOMAIN run :
        /\ run[r].pc = "returned"
        /\ Winners(run[r].trades) # {}
        /\ Losers(run[r].trades) # {}
        /\ RGt(run[r].result.profit_factor, Zero)
        /\ run[r].result.profit_factor # One

\* The drawdown of point k of a curve against the highest of `start` and
\* the equity values up to k, and what a report of the largest of them
\* (0 when there is none above 0) looks like.
DrawdownAt(start, curve, k) ==
    LET peak == RunningPeak(start, curve, k)
    IN  RDiv(RSub(peak, curve[k].equity), peak)

IsLargestDrawdown(md, start, curve) ==
    /\ \A k \in 1 .. Len(curve) : RLe(DrawdownAt(start, curve, k), md)
    /\ \/ md = Zero
       \/ \E k \in 1 .. Len(curve) : md = DrawdownAt(start, curve, k)

\* C24 as stated: max_drawdown is the maximum of (peak - equity) / peak with
\* peak the running maximum of the equity values of the curve alone; a curve
\* that never decreases has max_drawdown 0 whatever initial_capital is.
C24_DrawdownFromCurveAlone ==
    \A r \in DOMAIN run :
        (run[r].pc = "returned" /\ run[r].result.equity_curve # <<>>) =>
            LET curve == run[r].result.equity_curve
            IN  IsLargestDrawdown(run[r].result.max_drawdown,
                                  curve[1].equity, curve)

\* C24, amended: the peak is the running maximum of initial_capital and the
\* equity values seen so far; an empty curve reports 0.
C24_MaxDrawdown ==
    \A r \in DOMAIN run :
        run[r].pc = "returned" =>
            IsLargestDrawdown(run[r].result.max_drawdown,
                              run[r].initial_capital, run[r].result.equity_curve)

\* A report whose curve never decreases but starts below initial_capital
\* (the cost of the first open): its max_drawdown is that first gap.
C24_Witness ==
    \E r \in DOMAIN run :
        /\ run[r].pc = "returned"
        /\ Len(run[r].result.equity_curve) = 2
        /\ RLt(run[r].result.equity_curve[1].equity, run[r].initial_capital)
        /\ RLt(run[r].result.equity_curve[1].equity,
               run[r].result.equity_curve[2].equity)
        /\ run[r].result.max_drawdown =
               DrawdownAt(run[r].initial_capital, run[r].result.equity_curve, 1)
        /\ RGt(run[r].result.max_drawdown, Zero)

IsOpen(t) == t.type \in {"open_long", "open_short"}

IsClose(t) == t.type \in {"close_long", "close_short"}

\* The opening trade a closing trade closes, and the one that follows it.
OpenClosedBy(type) == IF type = "close_long" THEN "open_long" ELSE "open_short"

OpenAfter(type) == IF type = "close_long" THEN "open_short" ELSE "open_long"

\* The calls that have started.
StartedRuns == {r \in DOMAIN run : run[r].pc \in {"loop", "returned", "raised"}}

LedgerGrammar(trades, position) ==
    /\ trades # <<>> => IsOpen(trades[1])
    /\ \A k \in 1 .. Len(trades) :
           IsClose(trades[k]) =>
               /\ k > 1
               /\ trades[k - 1].type = OpenClosedBy(trades[k].type)
               /\ k < Len(trades)
               /\ trades[k + 1].type = OpenAfter(trades[k].type)
               /\ trades[k + 1].timestamp = trades[k].timestamp
    /\ \A k \in 1 .. Len(trades) - 1 :
           IsOpen(trades[k]) => trades[k + 1].type # trades[k].type
    /\ trades # <<>> => position # Zero

\* C28: in every state of a run the ledger is empty or starts with an
\* open; a close follows the open of its own direction and is followed by
\* the open of the other direction at the same timestamp; no two opens of
\* one direction are adjacent; and after the first open the position is
\* never zero.
C28_LedgerGrammar ==
    \A r \in StartedRuns : LedgerGrammar(run[r].trades, run[r].position)

Opens(trades) == SelectSeq(trades, IsOpen)

Closes(trades) == SelectSeq(trades, IsClose)

\* C30: the ledger a run returns, when it is not empty, holds exactly one
\* opening trade more than it holds closing trades, and the win_rate the
\* run reports is below 1/2.
C30_WinRateCeiling ==
    \A r \in DOMAIN run :
        run[r].pc = "returned" =>
            /\ run[r].result.trades # <<>> =>
                   Len(Opens(run[r].result.trades)) =
                       Len(Closes(run[r].result.trades)) + 1
            /\ RLt(run[r].result.win_rate, Rat(1, 2))

(***************************************************************************)
(* Claims about BinaryCalibrator.calibrate.                                *)
(***************************************************************************)
InUnitInterval(x) == RGe(x, Zero) /\ RLe(x, One)

\* C5: calibrate returns (p_long, p_short, p_flat) with each component in
\* [0, 1] and p_long + p_short + p_flat = 1.
C5_CalibrationNormalized ==
    cal.pc = "returned" =>
        /\ \A k \in 1 .. 3 : InUnitInterval(cal.result[k])
        /\ RAdd(RAdd(cal.result[1], cal.result[2]), cal.result[3]) = One

\* A call whose raw values summed to more than 1 (both curves answered
\* above 0), so that the division changed them.
C5_Witness ==
    /\ cal.pc = "returned"
    /\ cal.long_cal = "ramp" /\ cal.short_cal = "quarter"
    /\ cal.q = <<1, 0, 0>>
    /\ cal.result = <<Rat(4, 5), Rat(1, 5), Zero>>

\* C20: calibrate is total and never divides by zero: every call returns
\* three numbers, the sum it divides by is not 0, and a sum of 0 would come
\* back as (1/3, 1/3, 1/3).
C20_CalibrateTotal ==
    cal.pc = "returned" =>
        LET raw == RawProbabilities(cal.long_cal, cal.short_cal, cal.q)
            s == RAdd(RAdd(raw[1], raw[2]), raw[3])
        IN  /\ s # Zero
            /\ \A k \in 1 .. 3 : cal.result[k] # NaN
            /\ s = Zero => cal.result = <<Rat(1, 3), Rat(1, 3), Rat(1, 3)>>

\* The call nearest to a zero sum: both curves answer 0, the raw values are
\* (0, 0, 1) and the division by their sum 1 returns them.
C20_Witness ==
    /\ cal.pc = "returned"
    /\ cal.long_cal = "zero" /\ cal.short_cal = "zero"
    /\ cal.q = <<0, 0, 0>>
    /\ cal.result = <<Zero, Zero, One>>

\* C21: Scenario E.  For every pair of fitted curves, calibrate applied to
\* the score vector (0, 0, 0) returns (1/3, 1/3, 1/3).
C21_ScenarioE ==
    (cal.pc = "returned" /\ cal.q = <<0, 0, 0>>) =>
        cal.result = <<Rat(1, 3), Rat(1, 3), Rat(1, 3)>>

(***************************************************************************)
(* Claims about walk_forward_validation.                                   *)
(***************************************************************************)
\* The rows handed to the model in a sequence of fit or predict calls.
RowsIn(calls) ==
    UNION {{calls[m][k] : k \in 1 .. Len(calls[m])} : m \in 1 .. Len(calls)}

\* C6: the model is fitted only on rows with index < train_size and predicts
\* only rows with index >= train_size; every test row index is greater than
\* every train row index, and the two segments, in order, are the input.
C6_WalkForwardLeakageFree ==
    wf.pc # "idle" =>
        /\ \A a \in RowsIn(wf.fit_calls) : a < wf.train_size
        /\ \A b \in RowsIn(wf.predict_calls) : b >= wf.train_size
        /\ \A a \in RowsIn(wf.fit_calls) : \A b \in RowsIn(wf.predict_calls) : a < b
        /\ \A m \in 1 .. Len(wf.fit_calls) : wf.fit_calls[m] = wf.X_train
        /\ \A m \in 1 .. Len(wf.predict_calls) : wf.predict_calls[m] = wf.X_test
        /\ wf.pc \in {"fit", "predict", "score"} =>
               /\ wf.X_train \o wf.X_test = wf.X
               /\ wf.y_train \o wf.y_test = wf.y
               /\ Len(wf.X_train) = wf.train_size

\* A validation that has fitted on the 62 leading rows of 90 and predicted
\* the 28 trailing ones.
C6_Witness ==
    /\ wf.pc = "score"
    /\ Len(wf.X) = 90
    /\ Len(wf.fit_calls) = 1 /\ Len(wf.fit_calls[1]) = 62
    /\ Len(wf.predict_calls) = 1 /\ Len(wf.predict_calls[1]) = 28

\* C7: whenever the test segment, n - floor(0.7 n) rows, has fewer than 20
\* rows, the validation returns exactly 0.5 whatever X and y hold, without
\* fitting or calling the model.
C7_LowDataPolicy ==
    LET n == Len(wf.X) IN
    (wf.pc # "idle" /\ n - ((7 * n) \div 10) < 20) =>
        /\ wf.pc \in {"call", "returned"}
        /\ wf.fit_calls = <<>>
        /\ wf.predict_calls = <<>>
        /\ wf.pc = "returned" => wf.result = Rat(1, 2) /\ wf.error = ""

\* Scenario D: 33 rows with varying labels, a test segment of 10 rows.
C7_Witness ==
    /\ wf.pc = "returned"
    /\ Len(wf.X) = 33
    /\ wf.test_size = 10
    /\ wf.y[2] # wf.y[1]
    /\ wf.result = Rat(1, 2)

\* C8: for every input and every model, one whose fit or predict fails
\* included, the validation ends by returning a value in [0, 1]: nothing
\* is raised, a failure returns 0.5 and the R^2 is clamped.
C8_AccuracyInUnitInterval ==
    wf.pc # "idle" =>
        /\ wf.pc \in {"call", "fit", "predict", "score", "returned"}
        /\ wf.pc = "returned" =>
               /\ InUnitInterval(wf.result)
               /\ wf.error # "" => wf.result = Rat(1, 2)
               /\ wf.r2 # <<>> => wf.result = RMax(Zero, RMin(One, wf.r2))

\* A validation whose out-of-sample R^2 was negative and came back as 0.
C8_Witness ==
    /\ wf.pc = "returned"
    /\ wf.r2 # <<>>
    /\ RLt(wf.r2, Zero)
    /\ wf.result = Zero

(***************************************************************************)
(* Claims about decide_signal.                                             *)
(***************************************************************************)
\* The probability of the class a signal stands for.
ProbabilityOf(probabilities, signal) ==
    IF signal = 1 THEN probabilities[3]
    ELSE IF signal = -1 THEN probabilities[1]
    ELSE probabilities[2]

\* C18: for every probability triple the signal decide_signal returns is
\* the class with the highest probability, and the confidence it returns is
\* the maximum of the three probabilities.
C18_DecisionPolicy ==
    sig.pc = "returned" =>
        LET p == sig.probabilities
            highest == RMax(RMax(p[1], p[2]), p[3])
        IN  /\ ProbabilityOf(p, sig.result.signal) = highest
            /\ sig.result.confidence = highest

(***************************************************************************)
(* Claims about FeaturePipe.make_window.                                   *)
(***************************************************************************)
\* After win.n calls the store holds the most recent min(n, W) rows in
\* arrival order, and the last call returned their scaled images, row by
\* row.
RingBufferHolds(w) ==
    LET m == IF w.n < w.maxlen THEN w.n ELSE w.maxlen
    IN  /\ Len(w.window_store) = m
        /\ w.window_store = SubSeq(w.arrivals, w.n - m + 1, w.n)
        /\ w.n > 0 =>
               /\ w.error = ""
               /\ Len(w.X) = m
               /\ \A j \in 1 .. m :
                      w.X[j] = TransformRow(w.scaler, w.window_store[j])

Handle(s, call) ==
    CASE call.kind = "train" -> train_model(s, call)
      [] call.kind = "backtest" -> backtest_model(s, call)
      [] OTHER -> predict(s, call)

\* What the service answers to the call when it serves nothing else.
Alone(call, second) == Handle(Started(second), call).log[1]

\* C25: requests served in any order each get the result they get when
\* served alone: the same response, computed with the same data; none
\* depends on the registry or on the random-number state another one wrote.
C25_SameResultAsAlone ==
    svc.pc = "serving" =>
        \A k \in 1 .. Len(svc.log) :
            svc.log[k] = Alone(svc.log[k].call, svc.log[k].second)

\* The served requests whose handler raised the given client error.
RaisedClientError(details) ==
    {k \in 1 .. Len(svc.log) : svc.log[k].detail \in details}

\* C27: a request that finds no model ends with status 404 and a request
\* with too few data rows ends with status 400; neither ends with 500.
C27_ClientErrorStatusPreserved ==
    svc.pc = "serving" =>
        /\ \A k \in RaisedClientError({"no model", "not found"}) :
               svc.log[k].status = 404
        /\ \A k \in RaisedClientError({"insufficient"}) :
               svc.log[k].status = 400

\* The registry entries of the symbol.
ModelsOf(registry, symbol) ==
    {k \in 1 .. Len(registry) : registry[k].symbol = symbol}

\* The request the step serves is a predict request.
PredictServed ==
    /\ svc.pc = "serving"
    /\ Len(svc'.log) = Len(svc.log) + 1
    /\ svc'.log[Len(svc'.log)].call.kind = "predict"

\* C29: a predict request for a symbol that has a registered model is
\* answered with a model of that symbol of the highest stored accuracy,
\* also when every model of the symbol has accuracy 0.
C29_BestModelSelected ==
    [][PredictServed =>
           LET served == svc'.log[Len(svc'.log)]
               candidates == ModelsOf(svc.models, served.call.symbol)
           IN  candidates # {} =>
                   /\ served.status = 200
                   /\ \E b \in candidates :
                          /\ svc.models[b].key = served.key
                          /\ \A k \in candidates :
                                 RLe(svc.models[k].accuracy,
                                     svc.models[b].accuracy)]_vars

(***************************************************************************)
(* Claims about RateLimiter.wait.                                          *)
(***************************************************************************)
\* The requests released in the 60 seconds that start at time t.
ReleasedInWindow(t) ==
    {j \in 1 .. Len(rl.released) :
         t <= rl.released[j] /\ rl.released[j] < t + Window}

\* C26: whatever the number of coroutines that share the limiter, at most
\* max_calls requests are released in any window of 60 seconds.
C26_RateLimitCompliance ==
    rl.pc = "running" =>
        \A i \in 1 .. Len(rl.released) :
            Cardinality(ReleasedInWindow(rl.released[i])) <= rl.max_calls

=============================================================================
